---- MODULE Spec2Model ----
(***************************************************************************)
(* ProvidenceAgent (src/index.js): session lifecycle and delivery engine.  *)
(*                                                                         *)
(* The agent object's fields and the parts of the host page it touches     *)
(* (network primitives, listeners on document, timers, in-flight requests) *)
(* are the state.  Every method of the class is an operator from a state   *)
(* record to a state record, translated statement by statement; every     *)
(* host callback (public call, timer, DOM event, promise settlement) is    *)
(* one action that runs the whole callback to completion.                  *)
(***************************************************************************)
EXTENDS Integers, Sequences, FiniteSets, TLC

\* ------------------------------------------------------------------ bounds
\* Spec: the lifecycle in depth, a short buffer
MaxEvents == 1        \* records captured in one run
MaxInFlight == 1      \* delivery requests awaiting their response
MaxListeners == 4     \* listeners one run attaches to document per event kind
\* SpecDelivery: the delivery queue in depth, fewer restarts
DlvMaxEvents == 2
DlvMaxInFlight == 2
DlvMaxListeners == 2
\* SpecRetry: the delivery queue with the history of its failed attempts
RtyMaxEvents == 2
RtyMaxInFlight == 2
RtyMaxListeners == 1
\* SpecNet: with the page's own network calls
NetMaxEvents == 1
NetMaxInFlight == 1
NetMaxListeners == 2
NetMaxPending == 1    \* page fetch calls awaiting their response
\* SpecFault: with collaborators that throw inside the visibility handler
FltMaxEvents == 1
FltMaxInFlight == 1
FltMaxListeners == 3
FltMaxSessions == 4   \* session identifiers minted in one run
\* SpecConstruct: from before the constructor is called
CtrMaxEvents == 1
CtrMaxInFlight == 1
CtrMaxListeners == 2
\* SpecOrder: with the order of the effects inside each callback
OrdMaxEvents == 1
OrdMaxInFlight == 1
OrdMaxListeners == 2

\* SpecLive: the delivery queue under a host that keeps its timers firing
LveMaxEvents == 1
LveMaxInFlight == 1
LveMaxListeners == 1
\* SpecSession: with the session in which each record was captured
SesMaxEvents == 1
SesMaxInFlight == 1
SesMaxListeners == 2
SesMaxPending == 1
\* SpecXhr: with the page's XMLHttpRequest objects
XhrMaxEvents == 2
XhrMaxInFlight == 1
XhrMaxListeners == 1
XhrMaxObjects == 1    \* XMLHttpRequest objects the page holds at a time
XhrMaxOpens == 2      \* open calls on one object
\* SpecTime: with the page's network calls and a clock that advances
TmeMaxEvents == 1
TmeMaxInFlight == 1
TmeMaxListeners == 1
TmeMaxPending == 1
TmeMaxObjects == 1
TmeMaxOpens == 1
TmeMaxNow == 1        \* how far Date.now() advances

\* retries: whether the run keeps the history of failed delivery attempts
\* sessions: 0 where the bound on listeners already bounds the sessions
\* (a run notes the order of the effects of its callbacks when its limits have
\* a field trace)
Limits == [events |-> MaxEvents, inflight |-> MaxInFlight,
           listeners |-> MaxListeners, pending |-> 0, retries |-> FALSE,
           sessions |-> 0]
DlvLimits == [events |-> DlvMaxEvents, inflight |-> DlvMaxInFlight,
              listeners |-> DlvMaxListeners, pending |-> 0, retries |-> FALSE,
              sessions |-> 0]
RtyLimits == [events |-> RtyMaxEvents, inflight |-> RtyMaxInFlight,
              listeners |-> RtyMaxListeners, pending |-> 0, retries |-> TRUE,
              sessions |-> 0]
NetLimits == [events |-> NetMaxEvents, inflight |-> NetMaxInFlight,
              listeners |-> NetMaxListeners, pending |-> NetMaxPending,
              retries |-> FALSE, sessions |-> 0]
FltLimits == [events |-> FltMaxEvents, inflight |-> FltMaxInFlight,
              listeners |-> FltMaxListeners, pending |-> 0, retries |-> FALSE,
              sessions |-> FltMaxSessions]
CtrLimits == [events |-> CtrMaxEvents, inflight |-> CtrMaxInFlight,
              listeners |-> CtrMaxListeners, pending |-> 0, retries |-> FALSE,
              sessions |-> 0]
OrdLimits == [events |-> OrdMaxEvents, inflight |-> OrdMaxInFlight,
              listeners |-> OrdMaxListeners, pending |-> 0, retries |-> FALSE,
              sessions |-> 0, trace |-> TRUE]

LveLimits == [events |-> LveMaxEvents, inflight |-> LveMaxInFlight,
              listeners |-> LveMaxListeners, pending |-> 0, retries |-> TRUE,
              sessions |-> 0]
SesLimits == [events |-> SesMaxEvents, inflight |-> SesMaxInFlight,
              listeners |-> SesMaxListeners, pending |-> SesMaxPending,
              retries |-> FALSE, sessions |-> 0, origin |-> TRUE]
XhrLimits == [events |-> XhrMaxEvents, inflight |-> XhrMaxInFlight,
              listeners |-> XhrMaxListeners, pending |-> 0,
              retries |-> FALSE, sessions |-> 0, xhrs |-> XhrMaxObjects,
              opens |-> XhrMaxOpens]
TmeLimits == [events |-> TmeMaxEvents, inflight |-> TmeMaxInFlight,
              listeners |-> TmeMaxListeners, pending |-> TmeMaxPending,
              retries |-> FALSE, sessions |-> 0, xhrs |-> TmeMaxObjects,
              opens |-> TmeMaxOpens, clock |-> TmeMaxNow]

\* --------------------------------------------------------------- constants
CONSOLE_EVENT_TYPE == 6
\* milliseconds
INACTIVITY_TIMEOUT == 30 * 1000

BackendUrl == "backend"
Urls == {BackendUrl, "other"}
\* the forms in which a caller hands a URL to fetch
ResourceForms == {"string", "URL", "Request"}
\* what the recorder can emit: rrweb event type, and whether the first payload
\* element is a string that starts with AGENT_LOG_PREFIX once quotes are trimmed
EmitInputs == {[type |-> 3, prefixed |-> FALSE],
               [type |-> CONSOLE_EVENT_TYPE, prefixed |-> FALSE],
               [type |-> CONSOLE_EVENT_TYPE, prefixed |-> TRUE]}

\* the arguments of an open call on an XMLHttpRequest
OpenArgs == [method : {"GET"}, url : Urls]
\* the completion signals of an XMLHttpRequest
XhrSignals == {"load", "error", "timeout"}

\* a string option as the caller passes it: left out, the empty string, a value
ProjectIDs == {"absent", "", "p1"}
BackendUrls == {"absent", "", BackendUrl}
\* the argument of the constructor; given: whether an object is passed at all
OptionsInputs ==
  [given : BOOLEAN, backendUrl : BackendUrls, projectID : ProjectIDs]

VARIABLES
  \* the page around the agent
  page,                   \* the constructor call: its argument and what it left
  \* fields of the agent
  stopFn,                 \* TRUE: holds the stop handle of a recorder
  events,                 \* the event buffer
  saveInterval,           \* TRUE: holds the handle of a delivery interval
  sessionID,
  boundVisibilityHandler, \* TRUE: holds a bound visibility handler
  interceptorsReset,
  inactivityTimeout,      \* "null" | "live" | "stale" (handle of a dead timer)
  visibilityTimeout,      \* "null" | "live" | "stale"
  \* host page
  recorders,              \* rrweb recorders running
  intervals,              \* delivery intervals outstanding
  inactTimers,            \* inactivity timers outstanding
  inactivityDelay,        \* delay the last inactivity timer was armed with, ms
  visTimers,              \* teardown timers outstanding
  visListeners,           \* visibilitychange listeners of the agent on document
  activityListeners,      \* activity listeners on document, in registration order
  fetchImpl,              \* window.fetch: "original" | "wrapper"
  xhrOpenImpl,            \* XMLHttpRequest.prototype.open
  wsImpl,                 \* window.WebSocket
  visibilityState,        \* document.visibilityState
  inflight,               \* delivery requests issued by sendBatch, not yet settled
  pendingFetch,           \* page calls suspended inside the fetch wrapper
  xhrs,                   \* XMLHttpRequest objects the page has opened
  now,                    \* Date.now()
  acked,                  \* acked[id]: how many acknowledged batches held record id
  nextId,                 \* capture number of the next record appended
  warned,                 \* the last callback ended in console.warn
  effects,                \* what the last callback did to the host, in order
  unloaded,               \* the page has been unloaded
  limits,                 \* how far this run is explored
  \* history
  lastCall,               \* the method the last step called directly, if any
  cycle,                  \* hide/show cycle under observation
  away,                   \* absence under observation: hidden while recording
  lull,                   \* inactivity timeout under observation
  halted,                 \* stopRecord was called, and startRecord not since
  fault,                  \* how the last visibility handler that caught ended
  settled,                \* the page fetch call that settled in the last step
  signalled,              \* the XMLHttpRequest that completed in the last step
  owed,                   \* per in-flight request: failed batches it must resend
  failedSince,            \* failed batches not yet followed by a successful retry
  lastOk                  \* the batch acknowledged last, with what it owed

progVars == <<page, stopFn, events, saveInterval, sessionID, boundVisibilityHandler,
              interceptorsReset, inactivityTimeout, visibilityTimeout, recorders,
              intervals, inactTimers, inactivityDelay, visTimers, visListeners,
              activityListeners, fetchImpl, xhrOpenImpl, wsImpl, visibilityState, inflight,
              pendingFetch, xhrs, now, acked, nextId, warned, effects, unloaded>>
histVars == <<lastCall, cycle, away, lull, halted, fault, settled, signalled, owed,
              failedSince, lastOk>>
vars == <<progVars, histVars, limits>>

\* the program state as one record, so that methods compose as functions
St ==
  [stopFn |-> stopFn, events |-> events, saveInterval |-> saveInterval,
   sessionID |-> sessionID, boundVisibilityHandler |-> boundVisibilityHandler,
   interceptorsReset |-> interceptorsReset,
   inactivityTimeout |-> inactivityTimeout,
   visibilityTimeout |-> visibilityTimeout, recorders |-> recorders,
   intervals |-> intervals, inactTimers |-> inactTimers,
   inactivityDelay |-> inactivityDelay, visTimers |-> visTimers,
   visListeners |-> visListeners, activityListeners |-> activityListeners,
   fetchImpl |-> fetchImpl, xhrOpenImpl |-> xhrOpenImpl, wsImpl |-> wsImpl,
   visibilityState |-> visibilityState, inflight |-> inflight,
   pendingFetch |-> pendingFetch, xhrs |-> xhrs, now |-> now,
   acked |-> acked, nextId |-> nextId,
   warned |-> warned, effects |-> effects, unloaded |-> unloaded]

\* ------------------------------------------------------------- host helpers
Truthy(h) == h # "null"

\* uuid(): a token no session has had; identifiers only grow, so the successor is new
Uuid(s) == s.sessionID + 1

\* clearTimeout(this.inactivityTimeout): cancels the timer the handle names
ClearInactivityTimer(s) ==
  IF s.inactivityTimeout = "live"
  THEN [s EXCEPT !.inactTimers = @ - 1, !.inactivityTimeout = "stale"]
  ELSE s

\* clearTimeout(this.visibilityTimeout)
ClearVisibilityTimer(s) ==
  IF s.visibilityTimeout = "live"
  THEN [s EXCEPT !.visTimers = @ - 1, !.visibilityTimeout = "stale"]
  ELSE s

\* this.events.push(record)
Push(s, rec) == [s EXCEPT !.events = Append(@, rec), !.nextId = @ + 1]

\* a record the recorder emitted, as the buffer holds it; id is its capture number
\* the session identifier current when a record is captured, noted on the
\* record in the runs whose limits have a field origin
Origin(s) == IF "origin" \in DOMAIN limits THEN s.sessionID ELSE 0

\* (a field of data that may be missing is a sequence of at most one value)
UiRecord(s, ev) ==
  [id |-> s.nextId, sid |-> Origin(s), kind |-> "ui", url |-> "none", error |-> "none",
   requestMadeAt |-> <<>>, responseReceivedAt |-> <<>>, latency |-> <<>>,
   status |-> <<>>]

\* a Network record ({type: 50, data: {type: kind, url: url, error: error}})
\* that has none of the timing fields
NetRecord(s, kind, url, error) ==
  [id |-> s.nextId, sid |-> Origin(s), kind |-> kind, url |-> url, error |-> error,
   requestMadeAt |-> <<>>, responseReceivedAt |-> <<>>, latency |-> <<>>,
   status |-> <<>>]

\* ------------------------------------------------------------ agent methods
\* !s for an option that is a string or is left out
Falsy(str) == str \in {"absent", ""}

\* a constructor that does its work before it validates the options
Constructor_ValidatesLast(options) ==
  IF ~options.given
  THEN [agent |-> "failed", unloadListeners |-> 0, captured |-> FALSE,
        sessionID |-> 0]
  ELSE IF Falsy(options.backendUrl) \/ Falsy(options.projectID)
  THEN [agent |-> "failed", unloadListeners |-> 1, captured |-> TRUE,
        sessionID |-> 1]
  ELSE [agent |-> "built", unloadListeners |-> 1, captured |-> TRUE,
        sessionID |-> 1]

\* new ProvidenceAgent(options): what the call leaves on the page.  Reading
\* options.backendUrl of an argument that was not given throws a TypeError; the
\* first statement throws when a required option is missing; otherwise the
\* session identifier is minted, the three originals are captured and the
\* unload listener is registered
Constructor(options) ==
  IF ~options.given
  THEN [agent |-> "failed", unloadListeners |-> 0, captured |-> FALSE,
        sessionID |-> 0]
  ELSE IF Falsy(options.backendUrl) \/ Falsy(options.projectID)
  THEN [agent |-> "failed", unloadListeners |-> 0, captured |-> FALSE,
        sessionID |-> 0]
  ELSE [agent |-> "built", unloadListeners |-> 1, captured |-> TRUE,
        sessionID |-> 1]

IsInternalConsoleEvent(ev) == ev.type = CONSOLE_EVENT_TYPE /\ ev.prefixed

\* the emit closure handed to rrweb.record
Emit(s, ev) == IF IsInternalConsoleEvent(ev) THEN s ELSE Push(s, UiRecord(s, ev))

\* this.stopFn = rrweb.record({...})
RrwebRecord(s) == [s EXCEPT !.recorders = @ + 1, !.stopFn = TRUE]

\* this.saveInterval = setInterval(() => this.sendBatch(), 5000)
SetSaveInterval(s) == [s EXCEPT !.intervals = @ + 1, !.saveInterval = TRUE]

\* the callback in progress has done e to the host
Note(s, e) ==
  IF "trace" \in DOMAIN limits THEN [s EXCEPT !.effects = Append(@, e)] ELSE s

SendBatch(s) ==
  IF Len(s.events) = 0 THEN s
  ELSE Note([s EXCEPT !.events = <<>>,
                      !.inflight = Append(@, [events |-> s.events,
                                              sessionID |-> s.sessionID])],
            "flush")

InitializeNetworkCapture(s) ==
  [s EXCEPT !.fetchImpl = "wrapper", !.xhrOpenImpl = "wrapper", !.wsImpl = "wrapper"]

\* a restore that leaves the WebSocket constructor wrapped
RestoreNetworkImplementations_SkipsWebSocket(s) ==
  Note([s EXCEPT !.fetchImpl = "original", !.xhrOpenImpl = "original"],
       "restore")

RestoreNetworkImplementations(s) ==
  Note([s EXCEPT !.fetchImpl = "original", !.xhrOpenImpl = "original",
                 !.wsImpl = "original"], "restore")

\* the closure resetInactivityTimeout
ResetInactivityTimeout(s) ==
  LET s1 == IF Truthy(s.inactivityTimeout) THEN ClearInactivityTimer(s) ELSE s
  IN [s1 EXCEPT !.inactTimers = @ + 1, !.inactivityTimeout = "live",
                !.inactivityDelay = INACTIVITY_TIMEOUT]

\* every call makes a new closure, so removeEventListener finds nothing to remove
\* and one more listener is attached
InitializeInactivityDetection(s) ==
  LET s1 == IF Truthy(s.inactivityTimeout) THEN ClearInactivityTimer(s) ELSE s
      s2 == [s1 EXCEPT !.activityListeners = Append(@, "reset")]
  IN ResetInactivityTimeout(s2)

\* startRecord without its guard against a recording in progress
StartRecord_NoGuard(s) ==
  LET s1 == InitializeNetworkCapture(s)
      s2 == RrwebRecord(s1)
      s3 == SetSaveInterval(s2)
      s4 == InitializeInactivityDetection(s3)
  IN [s4 EXCEPT !.boundVisibilityHandler = TRUE, !.visListeners = @ + 1]

StartRecord(s) ==
  IF s.stopFn THEN [s EXCEPT !.warned = TRUE]
  ELSE LET s1 == InitializeNetworkCapture(s)
           s2 == RrwebRecord(s1)
           s3 == SetSaveInterval(s2)
           s4 == InitializeInactivityDetection(s3)
       IN [s4 EXCEPT !.boundVisibilityHandler = TRUE, !.visListeners = @ + 1]

\* stopRecord without the final sendBatch
StopRecord_NoFlush(s) ==
  LET s1 == IF Truthy(s.inactivityTimeout)
            THEN [ClearInactivityTimer(s) EXCEPT !.inactivityTimeout = "null"]
            ELSE s
      s2 == IF Truthy(s1.visibilityTimeout)
            THEN [ClearVisibilityTimer(s1) EXCEPT !.visibilityTimeout = "null"]
            ELSE s1
      s3 == IF s2.stopFn
            THEN [s2 EXCEPT !.recorders = @ - 1, !.stopFn = FALSE]
            ELSE s2
      s4 == IF s3.saveInterval
            THEN [s3 EXCEPT !.intervals = @ - 1, !.saveInterval = FALSE]
            ELSE s3
      s5 == [RestoreNetworkImplementations(s4) EXCEPT !.interceptorsReset = FALSE]
  IN IF s5.boundVisibilityHandler
     THEN [s5 EXCEPT !.visListeners = @ - 1, !.boundVisibilityHandler = FALSE]
     ELSE s5

\* stopRecord with the final sendBatch moved ahead of the restore
StopRecord_FlushFirst(s) ==
  LET s1 == IF Truthy(s.inactivityTimeout)
            THEN [ClearInactivityTimer(s) EXCEPT !.inactivityTimeout = "null"]
            ELSE s
      s2 == IF Truthy(s1.visibilityTimeout)
            THEN [ClearVisibilityTimer(s1) EXCEPT !.visibilityTimeout = "null"]
            ELSE s1
      s3 == IF s2.stopFn
            THEN [s2 EXCEPT !.recorders = @ - 1, !.stopFn = FALSE]
            ELSE s2
      s4 == IF s3.saveInterval
            THEN [s3 EXCEPT !.intervals = @ - 1, !.saveInterval = FALSE]
            ELSE s3
      s5 == [RestoreNetworkImplementations(SendBatch(s4))
               EXCEPT !.interceptorsReset = FALSE]
  IN IF s5.boundVisibilityHandler
     THEN [s5 EXCEPT !.visListeners = @ - 1, !.boundVisibilityHandler = FALSE]
     ELSE s5

StopRecord(s) ==
  LET s1 == IF Truthy(s.inactivityTimeout)
            THEN [ClearInactivityTimer(s) EXCEPT !.inactivityTimeout = "null"]
            ELSE s
      s2 == IF Truthy(s1.visibilityTimeout)
            THEN [ClearVisibilityTimer(s1) EXCEPT !.visibilityTimeout = "null"]
            ELSE s1
      s3 == IF s2.stopFn
            THEN [s2 EXCEPT !.recorders = @ - 1, !.stopFn = FALSE]
            ELSE s2
      s4 == IF s3.saveInterval
            THEN [s3 EXCEPT !.intervals = @ - 1, !.saveInterval = FALSE]
            ELSE s3
      s5 == [RestoreNetworkImplementations(s4) EXCEPT !.interceptorsReset = FALSE]
      s6 == IF s5.boundVisibilityHandler
            THEN [s5 EXCEPT !.visListeners = @ - 1,
                            !.boundVisibilityHandler = FALSE]
            ELSE s5
  IN SendBatch(s6)

HandleInactivityTimeout(s) ==
  LET s1 == StopRecord(s)
      s2 == SendBatch(s1)
      s3 == [s2 EXCEPT !.sessionID = Uuid(s2), !.interceptorsReset = FALSE]
  IN [s3 EXCEPT !.activityListeners = Append(@, "start")]

\* the callback of the teardown timer
VisibilityTimeoutCallback(s) ==
  [RestoreNetworkImplementations([s EXCEPT !.visibilityTimeout = "null"])
     EXCEPT !.interceptorsReset = TRUE]

HandleVisibilityChange(s) ==
  IF s.visibilityState = "hidden"
  THEN LET s1 == IF Truthy(s.inactivityTimeout)
                 THEN [ClearInactivityTimer(s) EXCEPT !.inactivityTimeout = "null"]
                 ELSE s
           s2 == IF s1.stopFn
                 THEN [s1 EXCEPT !.recorders = @ - 1, !.stopFn = FALSE]
                 ELSE s1
           s3 == IF s2.saveInterval
                 THEN [s2 EXCEPT !.intervals = @ - 1, !.saveInterval = FALSE]
                 ELSE s2
           s4 == SendBatch(s3)
       IN IF ~s4.interceptorsReset
          THEN LET s5 == IF Truthy(s4.visibilityTimeout)
                         THEN ClearVisibilityTimer(s4) ELSE s4
               IN [s5 EXCEPT !.visTimers = @ + 1, !.visibilityTimeout = "live"]
          ELSE s4
  ELSE IF Truthy(s.visibilityTimeout)
       THEN LET s1 == [ClearVisibilityTimer(s) EXCEPT !.visibilityTimeout = "null"]
                s2 == RrwebRecord(s1)
                s3 == SetSaveInterval(s2)
            IN InitializeInactivityDetection(s3)
       ELSE StartRecord([s EXCEPT !.sessionID = Uuid(s),
                                  !.interceptorsReset = FALSE])

\* the data of networkEventObj once the call is noted
HandleFetchRequest(s, url) == [url |-> url, requestMadeAt |-> s.now]

\* the record once the response is noted; status is 200 or 500 here
HandleFetchResponse(s, obj, ok) ==
  [NetRecord(s, "FETCH", obj.url, IF ok THEN "none" ELSE "HTTP Error")
     EXCEPT !.requestMadeAt = <<obj.requestMadeAt>>,
            !.responseReceivedAt = <<s.now>>,
            !.latency = <<s.now - obj.requestMadeAt>>,
            !.status = <<IF ok THEN 200 ELSE 500>>]

\* the wrapper interceptFetch installs: a call to backendUrl given as the very
\* string goes to the original and leaves no trace; any other call is suspended
\* until the original settles
FetchWrapper(s, form, url) ==
  IF form = "string" /\ url = BackendUrl THEN s
  ELSE [s EXCEPT !.pendingFetch = Append(@, HandleFetchRequest(s, url))]

\* window.fetch(resource) as the page calls it
WindowFetch(s, form, url) ==
  IF s.fetchImpl = "wrapper" THEN FetchWrapper(s, form, url) ELSE s

\* how the original fetch can settle: a response with a 2xx status, a response
\* with another status, a rejection with an Error, a rejection with null (the
\* reason of an abort(null)), which has no message to read
FetchOutcomes == {"ok", "httpError", "rejectError", "rejectNull"}

\* the wrapper resumes.  On a response the record is appended, with an error
\* descriptor when the status is not ok.  On a rejection the catch block builds
\* the record from error.message, which throws when the reason is null
FetchWrapperSettle(s, i, outcome) ==
  LET call == s.pendingFetch[i]
      s1 == [s EXCEPT !.pendingFetch =
                 SubSeq(@, 1, i - 1) \o SubSeq(@, i + 1, Len(@))]
  IN IF outcome \in {"ok", "httpError"}
     THEN Push(s1, HandleFetchResponse(s1, call, outcome = "ok"))
     ELSE IF outcome = "rejectError"
     THEN Push(s1, NetRecord(s1, "FETCH", call.url, "message"))
     ELSE s1

\* what the caller of the wrapper gets: the response of the original, the
\* error the original rejected with, or the TypeError raised in the catch block
FetchWrapperResult(outcome) ==
  IF outcome \in {"ok", "httpError"} THEN "response"
  ELSE IF outcome = "rejectError" THEN "sameError"
  ELSE "otherError"

\* the wrapper interceptXHR puts on XMLHttpRequest.prototype.open, called on
\* object x: it makes one networkEventObj, attaches the three listeners that
\* share it, and hands the arguments to the original open
XhrOpenWrapper(s, x, args) ==
  [x EXCEPT !.observers = Append(@, [url |-> args.url,
                                     requestMadeAt |-> s.now]),
            !.native = Append(@, args)]

\* xhr.open(method, url) as the page calls it on object i, or on a new object
\* when i is one past the last
XhrOpen(s, i, args) ==
  LET x0 == IF i <= Len(s.xhrs) THEN s.xhrs[i]
            ELSE [calls |-> <<>>, native |-> <<>>, observers |-> <<>>]
      x1 == [x0 EXCEPT !.calls = Append(@, args)]
      x2 == IF s.xhrOpenImpl = "wrapper" THEN XhrOpenWrapper(s, x1, args)
            ELSE [x1 EXCEPT !.native = Append(@, args)]
  IN [s EXCEPT !.xhrs = IF i <= Len(@) THEN [@ EXCEPT ![i] = x2]
                        ELSE Append(@, x2)]

\* one of the listeners the wrapper attached runs for networkEventObj obj
XhrListener(s, obj, signal) ==
  LET base == [NetRecord(s, "XHR", obj.url,
                         IF signal = "load" THEN "none"
                         ELSE IF signal = "error" THEN "Network Error"
                         ELSE "Timeout")
                 EXCEPT !.requestMadeAt = <<obj.requestMadeAt>>]
  IN IF signal = "load"
     THEN Push(s, [base EXCEPT !.responseReceivedAt = <<s.now>>,
                               !.latency = <<s.now - obj.requestMadeAt>>,
                               !.status = <<200>>])
     ELSE Push(s, base)

RECURSIVE XhrDispatch(_, _, _)
\* the object dispatches a completion signal to its listeners, in the order
\* they were attached
XhrDispatch(s, observers, signal) ==
  IF observers = <<>> THEN s
  ELSE XhrDispatch(XhrListener(s, Head(observers), signal), Tail(observers),
                   signal)

\* object i completes with a signal; the page then lets go of the object
XhrComplete(s, i, signal) ==
  LET s1 == [s EXCEPT !.xhrs = SubSeq(@, 1, i - 1) \o SubSeq(@, i + 1, Len(@))]
  IN XhrDispatch(s1, s.xhrs[i].observers, signal)

\* a promise chain whose .catch only logs: a failed batch is dropped
SendBatchSettle_NoRequeue(s, i, ok) ==
  LET b == s.inflight[i]
      s1 == [s EXCEPT !.inflight =
                 SubSeq(@, 1, i - 1) \o SubSeq(@, i + 1, Len(@))]
  IN IF ok
     THEN [s1 EXCEPT !.acked =
              [id \in DOMAIN @ |->
                 @[id] + Cardinality({k \in 1..Len(b.events) : b.events[k].id = id})]]
     ELSE s1

\* sendBatch's promise chain: .then throws on a non-ok response, .catch re-queues
SendBatchSettle(s, i, ok) ==
  LET b == s.inflight[i]
      s1 == [s EXCEPT !.inflight =
                 SubSeq(@, 1, i - 1) \o SubSeq(@, i + 1, Len(@))]
  IN IF ok
     THEN [s1 EXCEPT !.acked =
              [id \in DOMAIN @ |->
                 @[id] + Cardinality({k \in 1..Len(b.events) : b.events[k].id = id})]]
     ELSE [s1 EXCEPT !.events = b.events \o @]

\* the unload listener the constructor registers
UnloadHandler(s) ==
  LET s1 == IF s.boundVisibilityHandler
            THEN [s EXCEPT !.visListeners = @ - 1, !.boundVisibilityHandler = FALSE]
            ELSE s
      s2 == IF Truthy(s1.inactivityTimeout)
            THEN [ClearInactivityTimer(s1) EXCEPT !.inactivityTimeout = "null"]
            ELSE s1
  IN [StopRecord(s2) EXCEPT !.unloaded = TRUE]

\* ---- the same methods when a collaborator throws.  bad names the call that
\* throws: "stopFn" (the recorder's stop handle), "record" (rrweb.record),
\* "flush" (JSON.stringify or the request inside sendBatch, after the buffer
\* has been emptied), "none".  The result is the state at the return or at the
\* throw, whether the method threw, and whether it detached the bound
\* visibility listener.
StopRecordThrowing(s, bad) ==
  LET s1 == IF Truthy(s.inactivityTimeout)
            THEN [ClearInactivityTimer(s) EXCEPT !.inactivityTimeout = "null"]
            ELSE s
      s2 == IF Truthy(s1.visibilityTimeout)
            THEN [ClearVisibilityTimer(s1) EXCEPT !.visibilityTimeout = "null"]
            ELSE s1
      s3 == IF s2.stopFn
            THEN [s2 EXCEPT !.recorders = @ - 1, !.stopFn = FALSE]
            ELSE s2
      s4 == IF s3.saveInterval
            THEN [s3 EXCEPT !.intervals = @ - 1, !.saveInterval = FALSE]
            ELSE s3
      s5 == [RestoreNetworkImplementations(s4) EXCEPT !.interceptorsReset = FALSE]
      s6 == IF s5.boundVisibilityHandler
            THEN [s5 EXCEPT !.visListeners = @ - 1,
                            !.boundVisibilityHandler = FALSE]
            ELSE s5
  IN IF bad = "stopFn" /\ s2.stopFn
     THEN [st |-> s2, thrown |-> TRUE, detached |-> FALSE]
     ELSE IF bad = "flush" /\ Len(s6.events) > 0
     THEN [st |-> [s6 EXCEPT !.events = <<>>], thrown |-> TRUE,
           detached |-> s5.boundVisibilityHandler]
     ELSE [st |-> SendBatch(s6), thrown |-> FALSE,
           detached |-> s5.boundVisibilityHandler]

StartRecordThrowing(s, bad) ==
  IF bad = "record" /\ ~s.stopFn
  THEN [st |-> InitializeNetworkCapture(s), thrown |-> TRUE]
  ELSE [st |-> StartRecord(s), thrown |-> FALSE]

\* whether the try block of handleVisibilityChange reaches the call bad names
ReachesCall(s, bad) ==
  IF s.visibilityState = "hidden"
  THEN \/ bad = "stopFn" /\ s.stopFn
       \/ bad = "flush" /\ Len(s.events) > 0
  ELSE bad = "record" /\ (Truthy(s.visibilityTimeout) \/ ~s.stopFn)

\* the state in which the try block of handleVisibilityChange is left when the
\* call bad names throws
TryBlockThrown(s, bad) ==
  IF s.visibilityState = "hidden"
  THEN LET s1 == IF Truthy(s.inactivityTimeout)
                 THEN [ClearInactivityTimer(s) EXCEPT !.inactivityTimeout = "null"]
                 ELSE s
           s2 == IF s1.stopFn
                 THEN [s1 EXCEPT !.recorders = @ - 1, !.stopFn = FALSE]
                 ELSE s1
           s3 == IF s2.saveInterval
                 THEN [s2 EXCEPT !.intervals = @ - 1, !.saveInterval = FALSE]
                 ELSE s2
       IN IF bad = "stopFn" THEN s1 ELSE [s3 EXCEPT !.events = <<>>]
  ELSE IF Truthy(s.visibilityTimeout)
       THEN [ClearVisibilityTimer(s) EXCEPT !.visibilityTimeout = "null"]
       ELSE StartRecordThrowing([s EXCEPT !.sessionID = Uuid(s),
                                          !.interceptorsReset = FALSE], bad).st

\* the catch block of handleVisibilityChange; bad names the call that throws
\* again while it runs
CatchBlock(s, bad) ==
  LET r1 == StopRecordThrowing(s, bad)
      s2 == [r1.st EXCEPT !.sessionID = Uuid(r1.st), !.interceptorsReset = FALSE]
      r2 == StartRecordThrowing(s2, bad)
  IN IF r1.thrown THEN r1
     ELSE [st |-> r2.st, thrown |-> r2.thrown, detached |-> r1.detached]

\* handleVisibilityChange when the call first names throws in the try block and
\* the call again names throws in the catch block
HandleVisibilityChangeThrowing(s, first, again) ==
  CatchBlock(TryBlockThrown(s, first), again)

\* dispatch of one visibilitychange event: every listener attached when the
\* event is dispatched runs once (all are the same handler bound to the agent)
RECURSIVE RunVisibilityListeners(_, _)
RunVisibilityListeners(s, n) ==
  IF n = 0 THEN s ELSE RunVisibilityListeners(HandleVisibilityChange(s), n - 1)

\* dispatch of one activity event: the listeners attached when the event is
\* dispatched run in registration order; startOnActivity is registered once-only
\* and removes itself
RECURSIVE RunActivityListeners(_, _)
RunActivityListeners(s, ls) ==
  IF ls = <<>> THEN s
  ELSE IF Head(ls) = "reset"
       THEN RunActivityListeners(ResetInactivityTimeout(s), Tail(ls))
       ELSE RunActivityListeners(StartRecord(s), Tail(ls))

DispatchActivity(s) ==
  LET n == Len(s.activityListeners)
      t == RunActivityListeners(s, s.activityListeners)
      kept == SelectSeq(SubSeq(t.activityListeners, 1, n), LAMBDA l : l = "reset")
  IN [t EXCEPT !.activityListeners =
         kept \o SubSeq(t.activityListeners, n + 1, Len(t.activityListeners))]

\* ------------------------------------------------------------ state machine
\* the states of the lifecycle, read off the fields
Installed(s) ==
  s.fetchImpl = "wrapper" /\ s.xhrOpenImpl = "wrapper" /\ s.wsImpl = "wrapper"
Restored(s) ==
  s.fetchImpl = "original" /\ s.xhrOpenImpl = "original" /\ s.wsImpl = "original"
IsActive(s) == s.recorders > 0
IsPaused(s) == s.recorders = 0 /\ s.visibilityTimeout = "live"
IsIdle(s) ==
  /\ ~s.stopFn /\ s.recorders = 0
  /\ ~s.saveInterval /\ s.intervals = 0
  /\ s.inactivityTimeout = "null" /\ s.inactTimers = 0
  /\ s.visibilityTimeout = "null" /\ s.visTimers = 0
  /\ Restored(s)
  /\ ~s.boundVisibilityHandler /\ ~s.interceptorsReset
FullyActive(s) ==
  /\ s.stopFn /\ s.recorders > 0
  /\ Installed(s)
  /\ s.saveInterval /\ s.intervals > 0
  /\ s.inactivityTimeout = "live" /\ s.inactTimers > 0
  /\ s.boundVisibilityHandler /\ s.visListeners > 0
Lifecycle(s) ==
  IF IsActive(s) THEN "Active"
  ELSE IF IsPaused(s) THEN "Paused"
  ELSE IF IsIdle(s) THEN "Idle"
  ELSE "TornDown"

NoCall == [op |-> "none", from |-> "none", held |-> 0]
NoCycle == [phase |-> "none", sid |-> 0]
NoBatch == [events |-> <<>>, owes |-> {}]
NoLull == [phase |-> "none", old |-> 0, sid |-> 0]
NoSettle == [outcome |-> "none", result |-> "none", url |-> "none",
             before |-> <<>>]
NoSignal == [signal |-> "none", watched |-> 0, before |-> <<>>]
NoFault == [caught |-> FALSE, propagated |-> FALSE, fresh |-> FALSE,
            active |-> FALSE]

\* the page once the constructor has returned an agent
BuiltPage ==
  LET options == [given |-> TRUE, backendUrl |-> BackendUrl, projectID |-> "p1"]
      r == Constructor(options)
  IN [options |-> options, agent |-> r.agent,
      unloadListeners |-> r.unloadListeners, captured |-> r.captured]

InitWith(lim) ==
  /\ page = BuiltPage
  /\ limits = lim
  /\ stopFn = FALSE
  /\ events = <<>>
  /\ saveInterval = FALSE
  /\ sessionID = 1
  /\ boundVisibilityHandler = FALSE
  /\ interceptorsReset = FALSE
  /\ inactivityTimeout = "null"
  /\ visibilityTimeout = "null"
  /\ recorders = 0
  /\ intervals = 0
  /\ inactTimers = 0
  /\ inactivityDelay = 0
  /\ visTimers = 0
  /\ visListeners = 0
  /\ activityListeners = <<>>
  /\ fetchImpl = "original"
  /\ xhrOpenImpl = "original"
  /\ wsImpl = "original"
  /\ visibilityState = "visible"
  /\ inflight = <<>>
  /\ pendingFetch = <<>>
  /\ xhrs = <<>>
  /\ now = 0
  /\ acked = [id \in 1..lim.events |-> 0]
  /\ nextId = 1
  /\ warned = FALSE
  /\ effects = <<>>
  /\ unloaded = FALSE
  /\ lastCall = NoCall
  /\ cycle = NoCycle
  /\ away = NoCycle
  /\ lull = NoLull
  /\ halted = FALSE
  /\ fault = NoFault
  /\ settled = NoSettle
  /\ signalled = NoSignal
  /\ owed = <<>>
  /\ failedSince = {}
  /\ lastOk = NoBatch

Init == InitWith(Limits)
InitDelivery == InitWith(DlvLimits)
InitRetry == InitWith(RtyLimits)
InitNet == InitWith(NetLimits)
InitXhr == InitWith(XhrLimits)
InitSession == InitWith(SesLimits)
InitLive == InitWith(LveLimits)
InitTime == InitWith(TmeLimits)
InitFault == InitWith(FltLimits)
InitOrder == InitWith(OrdLimits)

\* the page before the constructor is called, for any argument
InitConstruct ==
  /\ page \in [options : OptionsInputs, agent : {"none"},
               unloadListeners : {0}, captured : {FALSE}]
  /\ limits = CtrLimits
  /\ sessionID = 0
  /\ stopFn = FALSE
  /\ events = <<>>
  /\ saveInterval = FALSE
  /\ boundVisibilityHandler = FALSE
  /\ interceptorsReset = FALSE
  /\ inactivityTimeout = "null"
  /\ visibilityTimeout = "null"
  /\ recorders = 0
  /\ intervals = 0
  /\ inactTimers = 0
  /\ inactivityDelay = 0
  /\ visTimers = 0
  /\ visListeners = 0
  /\ activityListeners = <<>>
  /\ fetchImpl = "original"
  /\ xhrOpenImpl = "original"
  /\ wsImpl = "original"
  /\ visibilityState = "visible"
  /\ inflight = <<>>
  /\ pendingFetch = <<>>
  /\ xhrs = <<>>
  /\ now = 0
  /\ acked = [id \in 1..CtrLimits.events |-> 0]
  /\ nextId = 1
  /\ warned = FALSE
  /\ effects = <<>>
  /\ unloaded = FALSE
  /\ lastCall = NoCall
  /\ cycle = NoCycle
  /\ away = NoCycle
  /\ lull = NoLull
  /\ halted = FALSE
  /\ fault = NoFault
  /\ settled = NoSettle
  /\ signalled = NoSignal
  /\ owed = <<>>
  /\ failedSince = {}
  /\ lastOk = NoBatch

\* a limit that only some runs have
Limit(f) == IF f \in DOMAIN limits THEN limits[f] ELSE 0

InBounds(s) ==
  /\ s.nextId <= limits.events + 1
  /\ Len(s.inflight) <= limits.inflight
  /\ Len(s.activityListeners) <= limits.listeners
  /\ s.visListeners <= limits.listeners
  /\ Len(s.pendingFetch) <= limits.pending
  /\ Len(s.xhrs) <= Limit("xhrs")
  /\ \A i \in 1..Len(s.xhrs) : Len(s.xhrs[i].calls) <= Limit("opens")
  /\ s.now <= Limit("clock")
  /\ limits.sessions = 0 \/ s.sessionID <= limits.sessions

Set(s) ==
  /\ stopFn' = s.stopFn
  /\ events' = s.events
  /\ saveInterval' = s.saveInterval
  /\ sessionID' = s.sessionID
  /\ boundVisibilityHandler' = s.boundVisibilityHandler
  /\ interceptorsReset' = s.interceptorsReset
  /\ inactivityTimeout' = s.inactivityTimeout
  /\ visibilityTimeout' = s.visibilityTimeout
  /\ recorders' = s.recorders
  /\ intervals' = s.intervals
  /\ inactTimers' = s.inactTimers
  /\ inactivityDelay' = s.inactivityDelay
  /\ visTimers' = s.visTimers
  /\ visListeners' = s.visListeners
  /\ activityListeners' = s.activityListeners
  /\ fetchImpl' = s.fetchImpl
  /\ xhrOpenImpl' = s.xhrOpenImpl
  /\ wsImpl' = s.wsImpl
  /\ visibilityState' = s.visibilityState
  /\ inflight' = s.inflight
  /\ pendingFetch' = s.pendingFetch
  /\ xhrs' = s.xhrs
  /\ now' = s.now
  /\ acked' = s.acked
  /\ nextId' = s.nextId
  /\ warned' = s.warned
  /\ effects' = s.effects
  /\ unloaded' = s.unloaded

\* the state a callback starts from
Pre == [St EXCEPT !.warned = FALSE, !.effects = <<>>]

\* a hide/show cycle that has just been completed is observed for one state
Age == IF cycle.phase = "back" THEN NoCycle ELSE cycle

\* an absence: the page is hidden while recording ("hidden"), the teardown
\* timer fires ("torn"), the page is shown ("late", observed for one state);
\* stopRecord and unload end the observation
AwayAfter(op) ==
  IF op = "hide"
  THEN IF stopFn THEN [phase |-> "hidden", sid |-> sessionID] ELSE NoCycle
  ELSE IF op = "show"
  THEN IF away.phase = "torn" THEN [away EXCEPT !.phase = "late"] ELSE NoCycle
  ELSE IF op = "teardown"
  THEN IF away.phase = "hidden" THEN [away EXCEPT !.phase = "torn"] ELSE away
  ELSE IF op \in {"stopRecord", "unload"} \/ away.phase = "late" THEN NoCycle
  ELSE away

\* an inactivity timeout: the timer fires while the page is visible and the
\* recorder runs ("ended"), then an activity event is dispatched ("restarted");
\* a public call, a visibility event or an unload ends the observation
LullAfter(op, s) ==
  IF op = "inactivity"
  THEN IF visibilityState = "visible" /\ stopFn /\ recorders > 0
       THEN [phase |-> "ended", old |-> sessionID, sid |-> s.sessionID]
       ELSE NoLull
  ELSE IF op = "activity"
  THEN IF lull.phase = "ended" THEN [lull EXCEPT !.phase = "restarted"] ELSE lull
  ELSE IF op \in {"tick", "emit", "settle", "fetch", "fetchSettle", "xhrOpen",
                  "xhrSignal", "clock"} THEN lull
  ELSE NoLull

\* one callback ran to completion and left the program in s; every request it
\* issued is noted with the failed batches outstanding at that moment
StepOf(op, s, cyc) ==
  /\ page.agent = "built"
  /\ page' = page
  /\ fault' = NoFault
  /\ InBounds(s)
  /\ Set(s)
  /\ lastCall' = IF op \in {"startRecord", "stopRecord", "tick"}
                 THEN [op |-> op, from |-> Lifecycle(St), held |-> Len(events)]
                 ELSE NoCall
  /\ cycle' = cyc
  /\ away' = AwayAfter(op)
  /\ lull' = LullAfter(op, s)
  /\ halted' = IF op = "stopRecord" THEN TRUE
               ELSE IF op = "startRecord" THEN FALSE ELSE halted
  /\ owed' = IF limits.retries
             THEN owed \o [k \in 1..(Len(s.inflight) - Len(inflight)) |-> failedSince]
             ELSE owed
  /\ failedSince' = failedSince
  /\ lastOk' = NoBatch
  /\ limits' = limits

\* the same, for every callback but the settlement of a page fetch call
Step(op, s, cyc) ==
  /\ settled' = NoSettle
  /\ signalled' = NoSignal
  /\ StepOf(op, s, cyc)

\* the page calls new ProvidenceAgent(options)
Construct ==
  /\ page.agent = "none"
  /\ LET r == Constructor(page.options)
     IN /\ page' = [page EXCEPT !.agent = r.agent,
                                !.unloadListeners = r.unloadListeners,
                                !.captured = r.captured]
        /\ sessionID' = r.sessionID
  /\ UNCHANGED <<stopFn, events, saveInterval, boundVisibilityHandler,
                 interceptorsReset, inactivityTimeout, visibilityTimeout,
                 recorders, intervals, inactTimers, inactivityDelay, visTimers,
                 visListeners, activityListeners, fetchImpl, xhrOpenImpl, wsImpl,
                 visibilityState, inflight, pendingFetch, xhrs, now, acked,
                 nextId, warned, effects,
                 unloaded, histVars, limits>>

StartRecordCall ==
  /\ ~unloaded
  /\ Step("startRecord", StartRecord(Pre), NoCycle)

StopRecordCall ==
  /\ ~unloaded
  /\ Step("stopRecord", StopRecord(Pre), NoCycle)

VisibilityChange ==
  /\ ~unloaded
  /\ LET v == IF visibilityState = "visible" THEN "hidden" ELSE "visible"
         s0 == [Pre EXCEPT !.visibilityState = v]
         s1 == RunVisibilityListeners(s0, s0.visListeners)
         cyc == IF v = "hidden"
                THEN IF stopFn THEN [phase |-> "hidden", sid |-> sessionID]
                     ELSE NoCycle
                ELSE IF cycle.phase = "hidden"
                     THEN [phase |-> "back", sid |-> cycle.sid]
                     ELSE NoCycle
     IN Step(IF v = "hidden" THEN "hide" ELSE "show", s1, cyc)

VisibilityTimerFire ==
  /\ ~unloaded
  /\ visTimers > 0
  /\ Step("teardown",
          VisibilityTimeoutCallback([Pre EXCEPT !.visTimers = @ - 1]), NoCycle)

InactivityTimerFire ==
  /\ ~unloaded
  /\ \E held \in BOOLEAN :
       /\ IF held THEN inactivityTimeout = "live"
          ELSE inactTimers > (IF inactivityTimeout = "live" THEN 1 ELSE 0)
       /\ LET s0 == [Pre EXCEPT !.inactTimers = @ - 1,
                                !.inactivityTimeout = IF held THEN "stale" ELSE @]
              s1 == IF s0.visibilityState = "visible"
                    THEN HandleInactivityTimeout(s0) ELSE s0
          IN Step("inactivity", s1, Age)

\* user input reaches the document only while the page is shown
Activity ==
  /\ ~unloaded
  /\ visibilityState = "visible"
  /\ Step("activity", DispatchActivity(Pre), Age)

SaveIntervalTick ==
  /\ ~unloaded
  /\ intervals > 0
  /\ Step("tick", SendBatch(Pre), Age)

RecorderEmit ==
  /\ ~unloaded
  /\ recorders > 0
  /\ \E ev \in EmitInputs : Step("emit", Emit(Pre, ev), Age)

PageFetch ==
  /\ ~unloaded
  /\ \E form \in ResourceForms, url \in Urls :
       Step("fetch", WindowFetch(Pre, form, url), Age)

FetchSettle ==
  /\ ~unloaded
  /\ \E i \in 1..Len(pendingFetch), outcome \in FetchOutcomes :
       /\ StepOf("fetchSettle", FetchWrapperSettle(Pre, i, outcome), Age)
       /\ settled' = [outcome |-> outcome, result |-> FetchWrapperResult(outcome),
                      url |-> pendingFetch[i].url, before |-> events]
       /\ signalled' = NoSignal

\* the page opens an XMLHttpRequest, a new one or one it has opened before
XhrOpenCall ==
  /\ ~unloaded
  /\ \E i \in 1..(Len(xhrs) + 1), args \in OpenArgs :
       Step("xhrOpen", XhrOpen(Pre, i, args), Age)

\* an opened XMLHttpRequest has been sent and completes
XhrSignal ==
  /\ ~unloaded
  /\ \E i \in 1..Len(xhrs), signal \in XhrSignals :
       /\ StepOf("xhrSignal", XhrComplete(Pre, i, signal), Age)
       /\ settled' = NoSettle
       /\ signalled' = [signal |-> signal, watched |-> Len(xhrs[i].observers),
                        before |-> events]

\* time passes
ClockAdvance ==
  /\ ~unloaded
  /\ Step("clock", [Pre EXCEPT !.now = @ + 1], Age)

\* a delivery request settles: 2xx, another status, or a rejected promise
DeliverySettle ==
  /\ ~unloaded
  /\ \E i \in 1..Len(inflight), outcome \in {"ok", "httpError", "reject"} :
       LET b == inflight[i]
           s == SendBatchSettle(Pre, i, outcome = "ok")
           \* the failed batches for which this is the first request issued
           \* after the failure that has not failed itself
           due == IF limits.retries
                  THEN {x \in owed[i] \cap failedSince :
                          \A j \in 1..(i - 1) : x \notin owed[j]}
                  ELSE {}
       IN /\ page.agent = "built"
          /\ page' = page
          /\ InBounds(s)
          /\ Set(s)
          /\ lastCall' = NoCall
          /\ cycle' = Age
          /\ away' = AwayAfter("settle")
          /\ lull' = LullAfter("settle", s)
          /\ halted' = halted
          /\ fault' = NoFault
          /\ settled' = NoSettle
          /\ signalled' = NoSignal
          /\ owed' = IF limits.retries
                     THEN SubSeq(owed, 1, i - 1) \o SubSeq(owed, i + 1, Len(owed))
                     ELSE owed
          /\ failedSince' = IF ~limits.retries THEN failedSince
                            ELSE IF outcome = "ok" THEN failedSince \ due
                            ELSE failedSince \cup {b.events}
          /\ lastOk' = IF limits.retries /\ outcome = "ok"
                       THEN [events |-> b.events, owes |-> due]
                       ELSE NoBatch
          /\ limits' = limits

Unload ==
  /\ ~unloaded
  /\ Step("unload", UnloadHandler(Pre), NoCycle)

\* a visibilitychange event during whose first listener a collaborator throws;
\* the listeners still attached after it run as usual (one that the catch
\* block detached does not run)
VisibilityChangeThrows ==
  /\ ~unloaded
  /\ visListeners > 0
  /\ \E first \in {"stopFn", "record", "flush"}, again \in BOOLEAN :
       LET v == IF visibilityState = "visible" THEN "hidden" ELSE "visible"
           s0 == [Pre EXCEPT !.visibilityState = v]
           r == HandleVisibilityChangeThrowing(s0, first,
                                               IF again THEN first ELSE "none")
           rest == IF r.detached /\ s0.visListeners > 1
                   THEN s0.visListeners - 2 ELSE s0.visListeners - 1
           s1 == RunVisibilityListeners(r.st, rest)
       IN /\ page.agent = "built"
          /\ page' = page
          /\ ReachesCall(s0, first)
          /\ InBounds(s1)
          /\ Set(s1)
          /\ lastCall' = NoCall
          /\ cycle' = NoCycle
          /\ away' = NoCycle
          /\ lull' = NoLull
          /\ halted' = halted
          /\ fault' = [caught |-> TRUE, propagated |-> r.thrown,
                       fresh |-> r.st.sessionID # sessionID,
                       active |-> FullyActive(r.st)]
          /\ settled' = NoSettle
          /\ signalled' = NoSignal
          /\ UNCHANGED <<owed, failedSince, lastOk, limits>>

\* the agent and the host callbacks that drive it
Next ==
  \/ StartRecordCall
  \/ StopRecordCall
  \/ VisibilityChange
  \/ VisibilityTimerFire
  \/ InactivityTimerFire
  \/ Activity
  \/ SaveIntervalTick
  \/ RecorderEmit
  \/ DeliverySettle
  \/ Unload

\* the same, on a page that makes network calls of its own
NextNet ==
  \/ Next
  \/ PageFetch
  \/ FetchSettle

Spec == Init /\ [][Next]_vars
SpecDelivery == InitDelivery /\ [][Next]_vars
SpecRetry == InitRetry /\ [][Next]_vars
SpecNet == InitNet /\ [][NextNet]_vars

SpecSession == InitSession /\ [][NextNet]_vars

\* a page that uses XMLHttpRequest
NextXhr ==
  \/ Next
  \/ XhrOpenCall
  \/ XhrSignal

SpecXhr == InitXhr /\ [][NextXhr]_vars

\* a page that uses both, while time passes
NextTime ==
  \/ NextNet
  \/ XhrOpenCall
  \/ XhrSignal
  \/ ClockAdvance

SpecTime == InitTime /\ [][NextTime]_vars

\* a delivery request is acknowledged with a success status
DeliveryAcked == DeliverySettle /\ acked' # acked

\* the host keeps firing the delivery interval while one is outstanding, and an
\* attempt that can settle again and again is acknowledged in the end
Fairness ==
  /\ WF_vars(SaveIntervalTick)
  /\ SF_vars(DeliveryAcked)

SpecLive == InitLive /\ [][Next]_vars /\ Fairness

\* the same, with collaborators that throw inside the visibility handler
NextFault ==
  \/ Next
  \/ VisibilityChangeThrows

SpecFault == InitFault /\ [][NextFault]_vars
SpecOrder == InitOrder /\ [][Next]_vars

\* the same, from before the agent is constructed
NextConstruct ==
  \/ Construct
  \/ Next

SpecConstruct == InitConstruct /\ [][NextConstruct]_vars

\* ------------------------------------------------------------------ claims
IsPrefix(x, y) == Len(x) <= Len(y) /\ SubSeq(y, 1, Len(x)) = x

\* how many times record id occurs in a sequence of records
Occurs(id, seq) == Cardinality({k \in 1..Len(seq) : seq[k].id = id})

RECURSIVE OccursInFlight(_, _)
OccursInFlight(id, batches) ==
  IF batches = <<>> THEN 0
  ELSE Occurs(id, Head(batches).events) + OccursInFlight(id, Tail(batches))

\* the fields a public call may touch other than the buffer and its requests
lifecycleVars == <<stopFn, saveInterval, sessionID, boundVisibilityHandler,
                   interceptorsReset, inactivityTimeout, visibilityTimeout,
                   recorders, intervals, inactTimers, inactivityDelay, visTimers,
                   visListeners, activityListeners, fetchImpl, xhrOpenImpl,
                   wsImpl, visibilityState, pendingFetch, acked, nextId, unloaded>>

\* C1: a hide/show cycle that starts while recording and ends before the
\* teardown timer fires, with no startRecord/stopRecord call in between, leaves
\* the session identifier as it was before the page was hidden.
C1_SessionKeptOnQuickReturn ==
  cycle.phase = "back" => sessionID = cycle.sid

\* C2: at most one recorder is running in every reachable state.
C2_AtMostOneRecorder == recorders <= 1

\* C3: interception is installed if and only if the agent is Active (recorder
\* running) or Paused-Pending-Teardown (recorder stopped, teardown timer pending).
C3_InstalledIffActiveOrPaused ==
  Installed(St) <=> (IsActive(St) \/ IsPaused(St))

C5_StopWhileIdleChangesNothing ==
  [][(lastCall'.op = "stopRecord" /\ IsIdle(St)) =>
       UNCHANGED <<events, inflight>>]_vars

\* C5 amended: stopRecord called while Idle changes no recorder, timer,
\* interceptor, listener or session identifier; an empty buffer stays empty and
\* nothing is sent; a non-empty buffer is drained into one delivery request that
\* carries all its records and the current session identifier.
C5_StopWhileIdleOnlyFlushes ==
  [][(lastCall'.op = "stopRecord" /\ IsIdle(St)) =>
       /\ UNCHANGED lifecycleVars
       /\ ~warned'
       /\ IF events = <<>>
          THEN UNCHANGED <<events, inflight>>
          ELSE /\ events' = <<>>
               /\ inflight' = Append(inflight, [events |-> events,
                                                sessionID |-> sessionID])]_vars

C5_Witness ==
  /\ lastCall.op = "stopRecord" /\ lastCall.from = "Idle" /\ lastCall.held > 0
  /\ events = <<>> /\ inflight # <<>> /\ IsIdle(St)

\* C6: when a delivery attempt has failed, the batch of the next attempt that
\* succeeds begins with exactly the records of the failed attempt.
C6_RetryBeginsWithFailedBatch ==
  \A x \in lastOk.owes : IsPrefix(x, lastOk.events)

\* C7: the event buffer holds its records in capture order in every reachable
\* state.
C7_BufferInCaptureOrder ==
  \A i, j \in 1..Len(events) : i < j => events[i].id < events[j].id

\* C8: every record appended so far is in exactly one of the buffer, one
\* in-flight batch, or one acknowledged batch; nothing else is anywhere.
C8_NoRecordLostOrDuplicated ==
  \A id \in DOMAIN acked :
    Occurs(id, events) + OccursInFlight(id, inflight) + acked[id]
      = IF id < nextId THEN 1 ELSE 0

C8_Witness ==
  /\ \E id \in DOMAIN acked : acked[id] = 1
  /\ events # <<>>
  /\ Lifecycle(St) \in {"Idle", "TornDown"}
  /\ sessionID > 1

\* C9: right after stopRecord returns, the three network primitives are the
\* captured originals, and a call through fetch leaves no trace in the agent.
C9_OriginalsAfterStop ==
  lastCall.op = "stopRecord" =>
    /\ Restored(St)
    /\ \A form \in ResourceForms, url \in Urls : WindowFetch(St, form, url) = St

C9_Witness ==
  lastCall.op = "stopRecord" /\ lastCall.from \in {"Active", "Paused"} /\ Restored(St)

\* C10: no Network record for a call to backendUrl is ever appended to the
\* buffer, in whatever form the caller passed that URL.
C10_NoRecordOfBackendCalls ==
  \A k \in 1..Len(events) :
    ~(events[k].kind = "FETCH" /\ events[k].url = BackendUrl)

\* C11: when the page is hidden while recording and the teardown timer fires
\* before the page is shown again (stopRecord not called meanwhile), then once
\* the page is shown the session identifier is not the one in force before it
\* was hidden, and the agent is recording: recorder running, interception
\* installed, a delivery interval and an inactivity timer armed.
C11_NewSessionAfterTeardown ==
  away.phase = "late" =>
    /\ sessionID # away.sid
    /\ stopFn /\ recorders > 0
    /\ Installed(St)
    /\ saveInterval /\ intervals > 0
    /\ inactivityTimeout = "live" /\ inactTimers > 0

\* C12: when the inactivity timer fires while the page is visible and the
\* recorder runs, no recorder runs afterwards and the session identifier is a
\* new one; the first activity event after that leaves exactly one recorder
\* running under the new identifier, and further activity events leave both
\* the recorder count and the identifier as they are.
C12_InactivityRoundTrip ==
  /\ lull.phase = "ended" =>
        recorders = 0 /\ ~stopFn /\ sessionID = lull.sid /\ lull.sid # lull.old
  /\ lull.phase = "restarted" =>
        recorders = 1 /\ stopFn /\ sessionID = lull.sid

\* C13: in every reachable state at most one delivery interval, at most one
\* inactivity timer and at most one teardown timer is outstanding.
C13_AtMostOneTimerOfEachKind ==
  intervals <= 1 /\ inactTimers <= 1 /\ visTimers <= 1

\* C14: from the return of a stopRecord call until the next startRecord call
\* no delivery interval, no inactivity timer and no teardown timer is
\* outstanding, and right after the call the agent is Idle.
C14_StoppedStaysWithoutTimers ==
  /\ halted => intervals = 0 /\ inactTimers = 0 /\ visTimers = 0
  /\ lastCall.op = "stopRecord" => IsIdle(St)

\* C15: a delivery tick on an empty buffer sends nothing and changes nothing;
\* a tick on a non-empty buffer leaves the buffer empty and issues one request
\* whose payload is exactly the records the buffer held, in capture order.
C15_TickDrainsInCaptureOrder ==
  [][lastCall'.op = "tick" =>
       /\ UNCHANGED lifecycleVars
       /\ IF events = <<>>
          THEN UNCHANGED <<events, inflight>>
          ELSE /\ events' = <<>>
               /\ Len(inflight') = Len(inflight) + 1
               /\ SubSeq(inflight', 1, Len(inflight)) = inflight
               /\ LET sent == inflight'[Len(inflight')].events
                  IN /\ sent = events
                     /\ \A i, j \in 1..Len(sent) :
                          i < j => sent[i].id < sent[j].id]_vars

\* C16: when a call inside the visibility-change handler throws, the handler
\* returns normally, and at its return the session identifier is a fresh one
\* and the agent is fully Active: recorder running, interception installed,
\* delivery interval and inactivity timer armed, visibility listener attached.
C16_VisibilityHandlerRecovers ==
  fault.caught => ~fault.propagated /\ fault.fresh /\ fault.active

\* C17: once the unload handler has run, no recorder runs, no delivery
\* interval, inactivity timer or teardown timer is outstanding, the three
\* primitives are the originals and no visibility listener of the agent is
\* attached, whatever the state the page was unloaded in.
C17_UnloadLeavesNothingBehind ==
  unloaded =>
    /\ recorders = 0
    /\ intervals = 0 /\ inactTimers = 0 /\ visTimers = 0
    /\ Restored(St)
    /\ visListeners = 0

\* C18: a call through the fetch wrapper to a URL other than backendUrl appends
\* exactly one Network record when it settles: without error message when the
\* original resolved, and the caller gets the response; with the error message
\* when the original rejected, and the caller gets the same error.
C18_OneRecordPerFetchCall ==
  (settled.outcome # "none" /\ settled.url # BackendUrl) =>
    /\ Len(events) = Len(settled.before) + 1
    /\ SubSeq(events, 1, Len(settled.before)) = settled.before
    /\ LET rec == events[Len(events)]
       IN /\ rec.kind = "FETCH" /\ rec.url = settled.url
          /\ IF settled.outcome \in {"ok", "httpError"}
             THEN settled.result = "response" /\ rec.error # "message"
             ELSE settled.result = "sameError" /\ rec.error = "message"

\* C19: a constructor call without backendUrl or without projectID throws and
\* leaves nothing behind: no unload listener, no captured or replaced
\* primitive, no session identifier.
C19_ConstructorFailsFast ==
  (page.agent # "none"
     /\ (page.options.backendUrl = "absent" \/ page.options.projectID = "absent")) =>
    /\ page.agent = "failed"
    /\ page.unloadListeners = 0
    /\ ~page.captured
    /\ Restored(St)
    /\ sessionID = 0

C19_Witness ==
  /\ page.agent = "failed" /\ page.options.given
  /\ page.options.backendUrl = BackendUrl /\ page.options.projectID = "absent"

\* C20: the inactivity timer the agent arms fires 5 minutes (300000 ms) after
\* the last activity event.
C20_InactivityTimeoutFiveMinutes ==
  inactivityTimeout = "live" => inactivityDelay = 5 * 60 * 1000

\* C21 as stated: a callback that restores the primitives and flushes the
\* buffer (stopRecord, the inactivity timeout, the unload handler) issues the
\* flush before it restores.
C21_FlushBeforeRestore ==
  \A i, j \in 1..Len(effects) :
    (effects[i] = "restore" /\ effects[j] = "flush") => j < i

\* C21 amended: such a callback restores the primitives first and issues the
\* flush afterwards, before it returns; a stopRecord called with a non-empty
\* buffer restores, then issues one flush, and leaves the buffer empty.
C21_FlushAfterRestore ==
  /\ \A i, j \in 1..Len(effects) :
       (effects[i] = "restore" /\ effects[j] = "flush") => i < j
  /\ lastCall.op = "stopRecord" =>
       /\ events = <<>>
       /\ effects = IF lastCall.held > 0 THEN <<"restore", "flush">>
                    ELSE <<"restore">>

C21_Witness ==
  /\ lastCall.op = "stopRecord" /\ lastCall.from = "Active" /\ lastCall.held > 0
  /\ effects = <<"restore", "flush">> /\ Restored(St)

\* C22: when the page is hidden while the recorder runs, the handler leaves no
\* recorder, no delivery interval and no inactivity timer, flushes the buffer
\* in one request, arms the teardown timer and leaves interception installed;
\* interception stays installed and the session identifier unchanged until
\* the page is shown, the teardown timer fires or the page calls the agent;
\* the teardown timer restores the primitives and keeps the session identifier.
C22_HiddenPausesUntilTeardown ==
  /\ [][(visibilityState = "visible" /\ visibilityState' = "hidden"
           /\ stopFn /\ recorders > 0) =>
          /\ recorders' = 0 /\ ~stopFn'
          /\ intervals' = 0 /\ ~saveInterval'
          /\ inactTimers' = 0
          /\ visTimers' = 1 /\ visibilityTimeout' = "live"
          /\ Installed(St)'
          /\ sessionID' = sessionID
          /\ events' = <<>>
          /\ inflight' = IF events = <<>> THEN inflight
                         ELSE Append(inflight, [events |-> events,
                                                sessionID |-> sessionID])]_vars
  /\ [](cycle.phase = "hidden" => (Installed(St) /\ sessionID = cycle.sid))
  /\ [][(~interceptorsReset /\ interceptorsReset') =>
          (Restored(St)' /\ sessionID' = sessionID)]_vars

\* C23: an XMLHttpRequest that was opened while the wrapper was on open and
\* then completes (load, transport error or timeout) appends exactly one XHR
\* record to the buffer, also when the object was opened more than once; and
\* every open call reaches the original open with the arguments the page gave.
C23_OneRecordPerXhr ==
  /\ (signalled.signal # "none" /\ signalled.watched > 0) =>
       /\ Len(events) = Len(signalled.before) + 1
       /\ IsPrefix(signalled.before, events)
       /\ events[Len(events)].kind = "XHR"
  /\ \A i \in 1..Len(xhrs) : xhrs[i].native = xhrs[i].calls

\* the Network records of kind fetch or XHR among a sequence of records
Timed(seq) == {k \in 1..Len(seq) : seq[k].kind \in {"FETCH", "XHR"}}

\* what C24 asks of one record
WellTimed(rec) ==
  /\ rec.requestMadeAt # <<>>
  /\ (rec.latency # <<>>) <=> (rec.responseReceivedAt # <<>>)
  /\ (rec.status # <<>>) <=> (rec.responseReceivedAt # <<>>)
  /\ rec.latency # <<>> =>
       rec.latency[1] = rec.responseReceivedAt[1] - rec.requestMadeAt[1]

\* C24: every Network record of kind fetch or XHR, in the buffer or in a batch
\* on its way, has requestMadeAt set, on the success path and on every error
\* path; latency and status are present exactly on the records whose
\* completion signal fired, and latency is responseReceivedAt - requestMadeAt.
C24_RequestMadeAtAlwaysSet ==
  /\ \A k \in Timed(events) : WellTimed(events[k])
  /\ \A b \in 1..Len(inflight) :
       \A k \in Timed(inflight[b].events) : WellTimed(inflight[b].events[k])

\* C25: while the agent stays Active, every record that is in the buffer is
\* eventually part of a batch acknowledged with a success status (or the agent
\* has left Active in the meantime), given that the delivery interval keeps
\* firing and that attempts succeed in the end; nothing but the periodic tick
\* is needed to send a failed batch again.
C25_EveryRecordEventuallyAcked ==
  \A id \in 1..LveMaxEvents :
    (Occurs(id, events) > 0) ~> (acked[id] > 0 \/ ~IsActive(St))

\* a batch that had failed before has been acknowledged while Active
C25_Witness ==
  /\ lastOk.owes # {}
  /\ IsActive(St)
  /\ \E id \in DOMAIN acked : acked[id] > 0 /\ Occurs(id, events) = 0

\* C26: from the return of a stopRecord call until the next startRecord call,
\* no step (activity event, visibility event, timer callback) starts a
\* recorder, puts a wrapper on a network primitive or changes the session
\* identifier.
C26_StoppedUntilStartRecord ==
  [][(halted /\ halted') =>
       /\ recorders' <= recorders
       /\ fetchImpl' = "wrapper" => fetchImpl = "wrapper"
       /\ xhrOpenImpl' = "wrapper" => xhrOpenImpl = "wrapper"
       /\ wsImpl' = "wrapper" => wsImpl = "wrapper"
       /\ sessionID' = sessionID]_vars

\* C27: in every reachable state at most one visibilitychange listener of the
\* agent is attached to the document, and right after stopRecord returns none
\* is attached.
C27_AtMostOneVisibilityListener ==
  /\ visListeners <= 1
  /\ lastCall.op = "stopRecord" => visListeners = 0

\* C28: every record on its way to the backend is in a payload whose sessionID
\* is the session identifier that was current when the record was captured.
C28_PayloadSessionIsCaptureSession ==
  \A b \in 1..Len(inflight) :
    \A k \in 1..Len(inflight[b].events) :
      inflight[b].events[k].sid = inflight[b].sessionID

\* C29: however often interception has been installed, a call through the
\* fetch wrapper to a URL other than the backend's suspends on the original
\* exactly once, and when the original settles exactly one record has been
\* added to the buffer.
C29_NoStackedWrappers ==
  /\ [][(fetchImpl = "wrapper" /\ Len(pendingFetch') > Len(pendingFetch)) =>
          Len(pendingFetch') = Len(pendingFetch) + 1]_vars
  /\ [][(settled'.outcome # "none" /\ settled'.url # BackendUrl) =>
          /\ Len(pendingFetch') = Len(pendingFetch) - 1
          /\ Len(events') = Len(events) + 1]_vars

\* C30: from the return of a stopRecord call until the next startRecord call
\* no record is appended to the buffer; in particular a fetch call that was
\* made while the wrapper was installed adds none when it completes after the
\* restore.  (Stated for the runs of no recorder, so that a recorder left
\* running by another defect is not what is observed.)
C30_NoRecordAfterStop ==
  [][(halted /\ halted' /\ recorders = 0) => nextId' = nextId]_vars
====
